---- MODULE Spec2Model ----
(***************************************************************************)
(* A model of osbs-metrics: the windowed time-series engines of            *)
(* metrics.py (ThroughputModel, ConcurrentModel) and the dependency graph  *)
(* of graph.py (BuildTree with its tag trimming).                          *)
(*                                                                         *)
(* The three engines share no state.  Each has its own specification over  *)
(* the same variables: SpecThroughput, SpecConcurrent, and for BuildTree   *)
(* SpecGraph (the constructor) and SpecTrim (trim_excess_tags on a tree    *)
(* the constructor returns).  In each of them the variables of the other   *)
(* engines keep the values of a freshly constructed object.                *)
(***************************************************************************)
EXTENDS Integers, Sequences, FiniteSets, TLC

VARIABLES
    \* ThroughputModel
    window,         \* self.window
    tm_builds,      \* self.builds: the instants retained in the window
    start_time,     \* self.start_time (None is modelled as -1)
    tm_appended,    \* history: every instant passed to append, in call order
    tm_result,      \* the value the last append returned
    tm_error,       \* TRUE once an append raised IndexError
    \* ConcurrentModel
    start_finish,   \* self.start_finish
    finish_times,   \* self.finish_times: the pending finish instants
    gen_pc,         \* where the get_nbuilds generator stands
    gen_idx,        \* index in start_finish of the interval of the for loop
    gen_run,        \* how many generators have been created (0, 1 or 2)
    events,         \* the pairs the current generator has yielded
    first_events,   \* the pairs the first generator yielded in all
    \* BuildTree
    builds,         \* the list handed to BuildTree(builds)
    queue,          \* the filtered, sorted list __init__ still has to add
    deps,           \* self.deps: base -> set of derived references
    seen,           \* self.seen
    when,           \* self.when: reference -> start instant
    bt_pc,          \* where the run of graph.py stands
    bt_error,       \* the exception that ended the run, or "none"
    todo,           \* bases of the current trimming pass not yet visited
    any_trimmed,    \* the flag any_trimmed of the current trimming pass
    trim_input,     \* history: deps as it was when trim_excess_tags was called
    trim_calls      \* history: how many times trim_excess_tags was called

tm_vars == <<window, tm_builds, start_time, tm_appended, tm_result, tm_error>>
cm_vars == <<start_finish, finish_times, gen_pc, gen_idx, gen_run, events,
             first_events>>
bt_vars == <<builds, queue, deps, seen, when, bt_pc, bt_error, todo,
             any_trimmed, trim_input, trim_calls>>
vars == <<tm_vars, cm_vars, bt_vars>>

Last(s) == s[Len(s)]

(***************************************************************************)
(* Bounds of the model.                                                    *)
(***************************************************************************)
MaxT == 4           \* completion instants are 0..MaxT
MaxWindow == 3      \* window durations are -1..MaxWindow
MaxAppends == 4     \* calls of ThroughputModel.append
MaxStart == 6       \* start instants of intervals are 1..MaxStart
MaxDur == 4         \* an interval finishes at most MaxDur after its start
MaxIntervals == 3   \* calls of ConcurrentModel.append
MaxBuilds == 3      \* records in the list handed to BuildTree
MaxTrimCalls == 2   \* calls of trim_excess_tags on one tree

(***************************************************************************)
(* ThroughputModel (metrics.py)                                            *)
(***************************************************************************)
\* get_stats: ThroughputModel(60 * 60)
TmWindow == 3600

TmFresh ==
    /\ tm_builds = <<>>
    /\ start_time = -1
    /\ tm_appended = <<>>
    /\ tm_result = 0
    /\ tm_error = FALSE

\* The state after ThroughputModel(window).
TmInit ==
    /\ window \in -1..MaxWindow
    /\ TmFresh

\* A mutant of EvictCond: the comparison is strict.
EvictCondStrict(b, w) == Last(b) - b[1] > w

\* The condition of the while loop of append.
EvictCond(b, w) == Last(b) - b[1] >= w

\* A mutant of Evict: an if in place of the while, at most one instant goes.
EvictOnce(b, w) ==
    IF b = <<>> THEN [builds |-> b, raised |-> TRUE]
    ELSE IF EvictCond(b, w) THEN [builds |-> Tail(b), raised |-> Tail(b) = <<>>]
    ELSE [builds |-> b, raised |-> FALSE]

RECURSIVE Evict(_, _)
\* The while loop of append: del self.builds[0] as long as the condition
\* holds.  Evaluating the condition on an empty list raises IndexError.
Evict(b, w) ==
    IF b = <<>> THEN [builds |-> b, raised |-> TRUE]
    ELSE IF EvictCond(b, w) THEN Evict(Tail(b), w)
    ELSE [builds |-> b, raised |-> FALSE]

\* get_stats sorts the builds by completion instant before it appends them.
TmInOrder(t) == IF tm_appended = <<>> THEN TRUE ELSE Last(tm_appended) <= t

\* ThroughputModel.append(timestamp)
TmAppend(t) ==
    /\ ~tm_error
    /\ Len(tm_appended) < MaxAppends
    /\ TmInOrder(t)
    /\ LET r == Evict(Append(tm_builds, t), window) IN
        /\ start_time' = IF tm_builds = <<>> THEN t ELSE start_time
        /\ tm_appended' = Append(tm_appended, t)
        /\ tm_builds' = r.builds
        /\ tm_error' = r.raised
        /\ tm_result' = IF r.raised THEN tm_result ELSE Len(r.builds)
    /\ UNCHANGED window

TmInputs ==
    /\ \E t \in 0..MaxT : TmAppend(t)
    /\ UNCHANGED <<cm_vars, bt_vars>>

NextThroughput == TmInputs

(***************************************************************************)
(* ConcurrentModel (metrics.py)                                            *)
(***************************************************************************)
\* The state after ConcurrentModel().
CmInit ==
    /\ start_finish = <<>>
    /\ finish_times = <<>>
    /\ gen_pc = "idle"
    /\ gen_idx = 0
    /\ gen_run = 0
    /\ events = <<>>
    /\ first_events = <<>>

RECURSIVE Insert(_, _)
Insert(x, s) ==
    IF s = <<>> THEN <<x>>
    ELSE IF x <= s[1] THEN <<x>> \o s
    ELSE <<s[1]>> \o Insert(x, Tail(s))

\* A mutant of Sort: the list is left as the appends made it.
SortNot(s) == s

RECURSIVE Sort(_)
\* list.sort() on a list of instants.
Sort(s) == IF s = <<>> THEN <<>> ELSE Insert(s[1], Sort(Tail(s)))

\* get_stats sorts the builds by start instant before it appends them.
CmInOrder(start) ==
    IF start_finish = <<>> THEN TRUE ELSE Last(start_finish)[1] <= start

\* ConcurrentModel.append(start, finish), before get_nbuilds is called.
CmAppend(start, finish) ==
    /\ gen_pc = "idle"
    /\ Len(start_finish) < MaxIntervals
    /\ CmInOrder(start)
    /\ start_finish' = Append(start_finish, <<start, finish>>)
    /\ UNCHANGED <<finish_times, gen_pc, gen_idx, gen_run, events,
                   first_events>>

\* get_nbuilds(): a generator object; none of its body runs yet.
GenStart ==
    /\ gen_pc = "idle"
    /\ gen_run = 0
    /\ gen_pc' = "new"
    /\ gen_run' = 1
    /\ UNCHANGED <<start_finish, finish_times, gen_idx, events, first_events>>
    /\ UNCHANGED <<tm_vars, bt_vars>>

\* A second get_nbuilds() on the same object, after the first is exhausted.
GenRestart ==
    /\ gen_pc = "done"
    /\ gen_run = 1
    /\ gen_pc' = "new"
    /\ gen_run' = 2
    /\ gen_idx' = 0
    /\ first_events' = events
    /\ events' = <<>>
    /\ UNCHANGED <<start_finish, finish_times>>
    /\ UNCHANGED <<tm_vars, bt_vars>>

\* A generator suspended at the yield of the while loop first deletes the
\* finish instant it has yielded; elsewhere it goes on with the list as it is.
Resumed == IF gen_pc = "y66" THEN Tail(finish_times) ELSE finish_times

\* The interval of the for loop the resumed generator works on.
CurIdx == IF gen_pc = "y66" THEN gen_idx ELSE gen_idx + 1

\* A mutant of Retirable: a finish instant equal to the start is kept.
RetirableStrict(start, ft) == ft # <<>> /\ ft[1] < start

\* The while loop goes on: there is a pending finish instant, and the loop
\* does not break on start < finish_times[0].
Retirable(start, ft) == ft # <<>> /\ ~(start < ft[1])

\* A mutant of FinishEvent: the count before the removal.
FinishEventBefore(ft) == <<ft[1], Len(ft)>>

\* The pair yielded in the while loop.
FinishEvent(ft) == <<ft[1], Len(ft) - 1>>

\* The pair yielded after the insertion.
StartEvent(start, ft) == <<start, Len(ft)>>

\* next() up to the yield of the while loop.
GenRetire ==
    /\ gen_pc \in {"new", "y66", "y71"}
    /\ CurIdx <= Len(start_finish)
    /\ Retirable(start_finish[CurIdx][1], Resumed)
    /\ events' = Append(events, FinishEvent(Resumed))
    /\ finish_times' = Resumed
    /\ gen_idx' = CurIdx
    /\ gen_pc' = "y66"
    /\ UNCHANGED <<start_finish, gen_run, first_events>>
    /\ UNCHANGED <<tm_vars, bt_vars>>

\* next() up to the yield that follows the insertion.
GenInsert ==
    /\ gen_pc \in {"new", "y66", "y71"}
    /\ CurIdx <= Len(start_finish)
    /\ ~Retirable(start_finish[CurIdx][1], Resumed)
    /\ LET ft == Sort(Append(Resumed, start_finish[CurIdx][2])) IN
        /\ finish_times' = ft
        /\ events' = Append(events, StartEvent(start_finish[CurIdx][1], ft))
    /\ gen_idx' = CurIdx
    /\ gen_pc' = "y71"
    /\ UNCHANGED <<start_finish, gen_run, first_events>>
    /\ UNCHANGED <<tm_vars, bt_vars>>

\* next() when the for loop has no interval left: StopIteration.
GenStop ==
    /\ gen_pc \in {"new", "y71"}
    /\ CurIdx > Len(start_finish)
    /\ gen_pc' = "done"
    /\ UNCHANGED <<start_finish, finish_times, gen_idx, gen_run, events,
                   first_events>>
    /\ UNCHANGED <<tm_vars, bt_vars>>

\* The intervals get_stats appends: a build completes at its start instant or
\* later (finish >= start is assumed of the records, not validated).
CmInputs ==
    /\ \E start \in 1..MaxStart :
          \E finish \in start..(start + MaxDur) : CmAppend(start, finish)
    /\ UNCHANGED <<tm_vars, bt_vars>>

NextConcurrent ==
    \/ CmInputs
    \/ GenStart
    \/ GenRetire
    \/ GenInsert
    \/ GenStop
    \/ GenRestart

(***************************************************************************)
(* BuildTree (graph.py)                                                    *)
(***************************************************************************)
\* Image references.  A reference is written as the sequence of the parts
\* that its colons separate: <<"A", "1">> is A:1.
A1 == <<"A", "1">>
B1 == <<"B", "1">>
B2 == <<"B", "2">>
CLatest == <<"C", "latest">>

\* A reference as a record carries it: with or without a registry host.
Plain(image) == [registry |-> "", image |-> image]
Reg(image) == [registry |-> "registry.example.com", image |-> image]

\* osbs.utils.strip_registry_from_image: the reference without the host.
strip_registry_from_image(raw) == raw.image

\* The start instants of records (RFC 3339 strings of one width, which sort
\* as the instants they name); 0 stands for a status without startTimestamp.
NoStart == 0
StartInstants == {1, 2}

\* The base-image-name annotations and the primary lists of the records.
RawBases == {Plain(A1), Reg(B1)}
Primaries == { {}, {Plain(A1)}, {Reg(A1), Plain(B1)},
               {Plain(B1), Plain(CLatest)} }

\* What the annotations of a record are like:
\*   ok              base-image-name and repositories with a primary list
\*   no_base         no base-image-name annotation
\*   no_repositories no repositories annotation
\*   bad_json        repositories is not JSON
\*   no_primary      repositories is a JSON object without "primary"
Defects == {"no_base", "no_repositories", "bad_json", "no_primary"}

Records ==
    [start : StartInstants, kind : {"ok"}, base : RawBases,
     primary : Primaries]
    \cup [start : {NoStart}, kind : {"ok"}, base : {Plain(A1)},
          primary : {{Plain(B1)}}]
    \cup [start : {2}, kind : Defects, base : {Plain(A1)},
          primary : {{Plain(B1)}}]

\* The state after BuildTree.__init__ has made its three empty collections.
BtFresh ==
    /\ builds = <<>>
    /\ queue = <<>>
    /\ deps = [b \in {} |-> {}]
    /\ seen = {}
    /\ when = [r \in {} |-> 0]
    /\ bt_pc = "new"
    /\ bt_error = "none"
    /\ todo = {}
    /\ any_trimmed = FALSE
    /\ trim_input = [b \in {} |-> {}]
    /\ trim_calls = 0

\* The list comprehension of __init__: the builds with a startTimestamp.
HasStart(build) == build.start # NoStart

\* A mutant of SortBefore: ascending order, the oldest build first.
SortBeforeAscending(x, y) == x.start <= y.start

\* x, which stands before y in the list, stays before y in the list sorted
\* by startTimestamp with reverse=True (the sort is stable).
SortBefore(x, y) == x.start >= y.start

RECURSIVE InsertBuild(_, _)
InsertBuild(x, t) ==
    IF t = <<>> THEN <<x>>
    ELSE IF SortBefore(x, t[1]) THEN <<x>> \o t
    ELSE <<t[1]>> \o InsertBuild(x, Tail(t))

RECURSIVE SortBuilds(_)
\* builds.sort(key=startTimestamp, reverse=True)
SortBuilds(s) ==
    IF s = <<>> THEN <<>> ELSE InsertBuild(s[1], SortBuilds(Tail(s)))

\* add returns at once: a KeyError inside its try block.
Skipped(build) == build.kind \in {"no_base", "no_repositories"}

\* add raises: json.loads raises ValueError, which the except clause does
\* not name, and repositories['primary'] stands outside the try block.
Raised(build) ==
    CASE build.kind = "bad_json" -> "ValueError"
      [] build.kind = "no_primary" -> "KeyError"
      [] OTHER -> "none"

\* A mutant of NewRepos: the duplicates are not taken out.
NewReposKeepDuplicates(build, seenset) ==
    {strip_registry_from_image(repo) : repo \in build.primary}

\* repos of add, after repos -= duplicates.
NewRepos(build, seenset) ==
    {strip_registry_from_image(repo) : repo \in build.primary} \ seenset

\* deps.get(image): the set of the image, or nothing where it has no entry.
Get(d, image) == IF image \in DOMAIN d THEN d[image] ELSE {}

\* A mutant of TreeAfterAdd: self.seen.update(repos) is left out.
TreeAfterAddNoSeen(tree, build) ==
    LET repos == NewRepos(build, tree.seen)
        base == strip_registry_from_image(build.base)
    IN  [seen |-> tree.seen,
         deps |-> [b \in DOMAIN tree.deps \cup {base} |->
                      IF b = base THEN Get(tree.deps, b) \cup repos
                      ELSE tree.deps[b]],
         when |-> [r \in DOMAIN tree.when \cup repos |->
                      IF r \in repos THEN build.start ELSE tree.when[r]]]

\* A mutant of TreeAfterAdd: when is written for every listed reference, the
\* duplicates too.
TreeAfterAddWhenAll(tree, build) ==
    LET repos == NewRepos(build, tree.seen)
        listed == {strip_registry_from_image(repo) : repo \in build.primary}
        base == strip_registry_from_image(build.base)
    IN  [seen |-> tree.seen \cup repos,
         deps |-> [b \in DOMAIN tree.deps \cup {base} |->
                      IF b = base THEN Get(tree.deps, b) \cup repos
                      ELSE tree.deps[b]],
         when |-> [r \in DOMAIN tree.when \cup listed |->
                      IF r \in listed THEN build.start ELSE tree.when[r]]]

\* The tree after add(build) has run to its end on a usable record.
TreeAfterAdd(tree, build) ==
    LET repos == NewRepos(build, tree.seen)
        base == strip_registry_from_image(build.base)
    IN  [seen |-> tree.seen \cup repos,
         deps |-> [b \in DOMAIN tree.deps \cup {base} |->
                      IF b = base THEN Get(tree.deps, b) \cup repos
                      ELSE tree.deps[b]],
         when |-> [r \in DOMAIN tree.when \cup repos |->
                      IF r \in repos THEN build.start ELSE tree.when[r]]]

Tree == [seen |-> seen, deps |-> deps, when |-> when]

\* The caller's list of records, as json.load returns it.
Submit(build) ==
    /\ bt_pc = "new"
    /\ Len(builds) < MaxBuilds
    /\ builds' = Append(builds, build)
    /\ UNCHANGED <<queue, deps, seen, when, bt_pc, bt_error, todo,
                   any_trimmed, trim_input, trim_calls>>

BtInputs ==
    /\ \E build \in Records : Submit(build)
    /\ UNCHANGED <<tm_vars, cm_vars>>

\* BuildTree(builds) up to its for loop: the filter and the sort.
Construct ==
    /\ bt_pc = "new"
    /\ queue' = SortBuilds(SelectSeq(builds, HasStart))
    /\ bt_pc' = "adding"
    /\ UNCHANGED <<builds, deps, seen, when, bt_error, todo, any_trimmed,
                   trim_input, trim_calls>>
    /\ UNCHANGED <<tm_vars, cm_vars>>

\* self.add(build) of the for loop, on a record add skips.
AddSkip ==
    /\ bt_pc = "adding"
    /\ queue # <<>>
    /\ Skipped(Head(queue))
    /\ queue' = Tail(queue)
    /\ UNCHANGED <<builds, deps, seen, when, bt_pc, bt_error, todo,
                   any_trimmed, trim_input, trim_calls>>
    /\ UNCHANGED <<tm_vars, cm_vars>>

\* self.add(build) of the for loop, on a record that makes add raise: the
\* exception leaves __init__, and there is no tree.
AddRaise ==
    /\ bt_pc = "adding"
    /\ queue # <<>>
    /\ ~Skipped(Head(queue))
    /\ Raised(Head(queue)) # "none"
    /\ bt_error' = Raised(Head(queue))
    /\ bt_pc' = "raised"
    /\ UNCHANGED <<builds, queue, deps, seen, when, todo, any_trimmed,
                   trim_input, trim_calls>>
    /\ UNCHANGED <<tm_vars, cm_vars>>

\* self.add(build) of the for loop, on a usable record.
Add ==
    /\ bt_pc = "adding"
    /\ queue # <<>>
    /\ ~Skipped(Head(queue))
    /\ Raised(Head(queue)) = "none"
    /\ LET after == TreeAfterAdd(Tree, Head(queue)) IN
        /\ seen' = after.seen
        /\ deps' = after.deps
        /\ when' = after.when
    /\ queue' = Tail(queue)
    /\ UNCHANGED <<builds, bt_pc, bt_error, todo, any_trimmed, trim_input, trim_calls>>
    /\ UNCHANGED <<tm_vars, cm_vars>>

\* The for loop of __init__ is through: the constructor returns.
Built ==
    /\ bt_pc = "adding"
    /\ queue = <<>>
    /\ bt_pc' = "built"
    /\ UNCHANGED <<builds, queue, deps, seen, when, bt_error, todo,
                   any_trimmed, trim_input, trim_calls>>
    /\ UNCHANGED <<tm_vars, cm_vars>>

\* name, version = layer.split(':', 1): the version is all that follows the
\* first colon.
Version(layer) == Tail(layer)

IsLatest(layer) == Version(layer) = <<"latest">>

\* A mutant of Excess: a layer with an empty entry in deps is not a leaf.
ExcessAbsentOnly(base, d) ==
    {layer \in d[base] : ~IsLatest(layer) /\ layer \notin DOMAIN d}

\* A mutant of Excess: every layer not tagged latest is excess, leaf or not.
ExcessAnyLayer(base, d) == {layer \in d[base] : ~IsLatest(layer)}

\* A mutant of Excess: every leaf is excess, whatever its tag.
ExcessAnyTag(base, d) == {layer \in d[base] : Get(d, layer) = {}}

\* excess of _trim_layers(base): the layers that are not tagged latest and
\* have no entry in deps, or an empty one.
Excess(base, d) ==
    {layer \in d[base] : ~IsLatest(layer) /\ Get(d, layer) = {}}

\* A mutant of AfterTrim: the leaf test reads self.deps[layer], and the
\* defaultdict makes an empty entry for every layer it is asked for.
AfterTrimTouching(base, d) ==
    [b \in DOMAIN d \cup d[base] |->
        IF b = base THEN d[b] \ Excess(base, d) ELSE Get(d, b)]

\* deps after _trim_layers(base): self.deps[base] -= excess.
AfterTrim(base, d) == [d EXCEPT ![base] = @ \ Excess(base, d)]

\* A mutant of AnyTrimmed: the flag is set whatever _trim_layers returns.
AnyTrimmedAlways(flag, excess) == TRUE

\* A mutant of AnyTrimmed: the flag is assigned the outcome of the last base.
AnyTrimmedLast(flag, excess) == excess # {}

\* any_trimmed after a base: set once _trim_layers returns a set that is not
\* empty, and left as it is otherwise.
AnyTrimmed(flag, excess) == flag \/ excess # {}

\* A mutant of PassAgain: the loop breaks after its first pass.
PassAgainNever(flag) == FALSE

\* The while loop goes round again unless the pass left any_trimmed unset.
PassAgain(flag) == flag

\* trim_excess_tags() is called, on the tree as built or once more on the
\* tree an earlier call has left: the first pass of its while loop begins.
TrimStart ==
    /\ bt_pc \in {"built", "trimmed"}
    /\ trim_calls < MaxTrimCalls
    /\ trim_calls' = trim_calls + 1
    /\ bt_pc' = "trimming"
    /\ todo' = DOMAIN deps
    /\ any_trimmed' = FALSE
    /\ trim_input' = deps
    /\ UNCHANGED <<builds, queue, deps, seen, when, bt_error>>
    /\ UNCHANGED <<tm_vars, cm_vars>>

\* One turn of the for loop over the bases, in whatever order the keys of the
\* dictionary come.
TrimBase(base) ==
    /\ bt_pc = "trimming"
    /\ base \in todo
    /\ todo' = todo \ {base}
    /\ IF Get(deps, base) # {}
       THEN /\ deps' = AfterTrim(base, deps)
            /\ any_trimmed' = AnyTrimmed(any_trimmed, Excess(base, deps))
       ELSE UNCHANGED <<deps, any_trimmed>>
    /\ UNCHANGED <<builds, queue, seen, when, bt_pc, bt_error, trim_input,
                   trim_calls>>

TrimBases ==
    /\ \E base \in todo : TrimBase(base)
    /\ UNCHANGED <<tm_vars, cm_vars>>

\* The pass trimmed something: the while loop goes round again.
TrimAgain ==
    /\ bt_pc = "trimming"
    /\ todo = {}
    /\ PassAgain(any_trimmed)
    /\ todo' = DOMAIN deps
    /\ any_trimmed' = FALSE
    /\ UNCHANGED <<builds, queue, deps, seen, when, bt_pc, bt_error,
                   trim_input, trim_calls>>
    /\ UNCHANGED <<tm_vars, cm_vars>>

\* The pass trimmed nothing: break, and trim_excess_tags returns.
TrimDone ==
    /\ bt_pc = "trimming"
    /\ todo = {}
    /\ ~PassAgain(any_trimmed)
    /\ bt_pc' = "trimmed"
    /\ UNCHANGED <<builds, queue, deps, seen, when, bt_error, todo,
                   any_trimmed, trim_input, trim_calls>>
    /\ UNCHANGED <<tm_vars, cm_vars>>

NextTrim ==
    \/ TrimStart
    \/ TrimBases
    \/ TrimAgain
    \/ TrimDone

\* The references of the trees that are trimmed.
TrimImages == {A1, B1, B2, CLatest}

\* No reference is in the derived set of two bases.
Deduplicated(d) ==
    \A b1, b2 \in DOMAIN d : b1 # b2 => d[b1] \cap d[b2] = {}

\* A tree as BuildTree(builds) returns it, for some list of records over
\* TrimImages: no reference under two bases, seen the references attributed,
\* when their instants.  The list itself is a local of __init__ and is gone.
BtBuilt ==
    /\ builds = <<>>
    /\ queue = <<>>
    /\ \E keys \in SUBSET TrimImages :
          /\ deps \in [keys -> SUBSET TrimImages]
          /\ Deduplicated(deps)
    /\ seen = UNION {deps[b] : b \in DOMAIN deps}
    /\ when = [r \in seen |-> 1]
    /\ bt_pc = "built"
    /\ bt_error = "none"
    /\ todo = {}
    /\ any_trimmed = FALSE
    /\ trim_input = [b \in {} |-> {}]
    /\ trim_calls = 0

NextGraph ==
    \/ BtInputs
    \/ Construct
    \/ AddSkip
    \/ AddRaise
    \/ Add
    \/ Built

(***************************************************************************)
(* Properties of ThroughputModel                                           *)
(***************************************************************************)
\* C6. Throughput window bound: with a positive window and instants appended
\* in non-decreasing order, after every append the retained list is not
\* empty, and it has length 1 or any two retained instants are less than
\* the window apart.
C6_WindowBound ==
    (window > 0 /\ tm_appended # <<>>) =>
        /\ ~tm_error
        /\ tm_builds # <<>>
        /\ \/ Len(tm_builds) = 1
           \/ \A i, j \in 1..Len(tm_builds) :
                i <= j => tm_builds[j] - tm_builds[i] < window

\* C6: a window that holds several instants after an eviction.
C6_Witness ==
    /\ window > 0
    /\ Len(tm_builds) >= 2
    /\ Len(tm_appended) > Len(tm_builds)
    /\ Last(tm_builds) - tm_builds[1] = window - 1

\* The number of instants appended so far that lie less than w before the
\* newest one.
InWindowCount(w) ==
    Cardinality({i \in 1..Len(tm_appended) :
                    Last(tm_appended) - tm_appended[i] < w})

\* C7. Throughput count: with a positive window and instants appended in
\* non-decreasing order, append(t) returns the number of instants x appended
\* so far, t included, with t - x < window.
C7_ThroughputCount ==
    (window > 0 /\ tm_appended # <<>>) =>
        /\ ~tm_error
        /\ tm_result = InWindowCount(window)
        /\ tm_result = Len(tm_builds)

\* C7: an append that returned 2 or more after two or more evictions.
C7_Witness ==
    /\ window > 0
    /\ tm_result >= 2
    /\ Len(tm_appended) >= tm_result + 2

\* C8. Degenerate window: with a window that is zero or negative every
\* append completes without error, and every append after the first leaves a
\* window of length 1 and returns 1.
C8_DegenerateWindow ==
    (window <= 0 /\ tm_appended # <<>>) =>
        /\ ~tm_error
        /\ Len(tm_appended) >= 2 => (Len(tm_builds) = 1 /\ tm_result = 1)

(***************************************************************************)
(* Properties of ConcurrentModel                                           *)
(***************************************************************************)
\* Every appended interval finishes no earlier than it starts.
FinishAfterStart ==
    \A j \in 1..Len(start_finish) : start_finish[j][1] <= start_finish[j][2]

\* The number of intervals among the first n appended whose half-open range
\* [start, finish) contains the instant t.
ContainCount(n, t) ==
    Cardinality({j \in 1..n :
                    start_finish[j][1] <= t /\ t < start_finish[j][2]})

\* The first generator has just yielded a pair.
Yielded == gen_run = 1 /\ gen_pc \in {"y66", "y71"}

\* C3, as claimed. Concurrency conservation: every pair (instant, count)
\* that get_nbuilds yields has count equal to the number of intervals, among
\* those up to and including the one being processed, whose range
\* [start, finish) contains the instant.
C3_ConservationClaimed ==
    (Yielded /\ FinishAfterStart) =>
        Last(events)[2] = ContainCount(gen_idx, Last(events)[1])

\* C3, amended. The count of a start event (s, c) is one, for the interval
\* being processed, plus the number of earlier intervals whose range
\* [start, finish) contains s.  With finish >= start everywhere, the count of
\* a finish event (f, c) is the number of earlier intervals whose range
\* contains f plus the number of other pending intervals that finish at f
\* too; the interval being processed is not counted.
C3_Conservation ==
    /\ (gen_run = 1 /\ gen_pc = "y71") =>
          Last(events)[2] = 1 + ContainCount(gen_idx - 1, Last(events)[1])
    /\ (gen_run = 1 /\ gen_pc = "y66" /\ FinishAfterStart) =>
          Last(events)[2] =
              ContainCount(gen_idx - 1, Last(events)[1])
              + Cardinality({k \in 2..Len(finish_times) :
                                finish_times[k] = Last(events)[1]})

\* C3: a finish event that leaves a build pending, one that finishes at the
\* same instant.
C3_Witness ==
    /\ gen_run = 1
    /\ gen_pc = "y66"
    /\ FinishAfterStart
    /\ Last(events)[2] >= 1
    /\ Len(finish_times) >= 2
    /\ finish_times[2] = finish_times[1]

\* The intervals and the events of the example.
ExampleIntervals == << <<1, 5>>, <<2, 3>>, <<6, 8>> >>
ExampleEvents == << <<1, 1>>, <<2, 2>>, <<3, 1>>, <<5, 0>>, <<6, 1>>, <<8, 0>> >>

\* C4. Complete event stream: for n intervals with finish >= start appended
\* in start order, get_nbuilds yields 2n pairs, a start event and a finish
\* event for every interval, so that the last pair has count 0; the
\* intervals (1,5),(2,3),(6,8) yield (1,1),(2,2),(3,1),(5,0),(6,1),(8,0).
C4_CompleteStream ==
    (gen_run = 1 /\ gen_pc = "done" /\ FinishAfterStart) =>
        /\ Len(events) = 2 * Len(start_finish)
        /\ events # <<>> => Last(events)[2] = 0
        /\ start_finish = ExampleIntervals => events = ExampleEvents

\* C5, as claimed. Tie-break at equal instants: only pending finishes
\* strictly less than the start s of the interval being processed are
\* retired ahead of its start event; no finish event (s, _) comes first.
C5_TieBreakClaimed ==
    (gen_run = 1 /\ gen_pc = "y66") =>
        Last(events)[1] < start_finish[gen_idx][1]

\* The earlier intervals, among the first n, that finish at t or before.
FinishedBy(n, t) == {j \in 1..n : start_finish[j][2] <= t}

\* C5, amended. The pending finishes less than or equal to the start s of
\* the interval being processed are retired ahead of its start event: a
\* pending interval that finishes exactly at s gets its finish event (s, _)
\* first and is not in the count of the start event.  When the start event
\* of the i-th interval is yielded, the pairs yielded are the i start
\* events and one finish event for each earlier interval with finish <= s.
C5_TieBreak ==
    /\ (gen_run = 1 /\ gen_pc = "y66") =>
          Last(events)[1] <= start_finish[gen_idx][1]
    /\ (gen_run = 1 /\ gen_pc = "y71") =>
          LET s == start_finish[gen_idx][1]
              retired == Cardinality(FinishedBy(gen_idx - 1, s))
          IN  /\ Len(events) = gen_idx + retired
              /\ Last(events) = <<s, gen_idx - retired>>

\* C5: the start event of an interval that starts exactly when an earlier
\* one finishes.
C5_Witness ==
    /\ gen_run = 1
    /\ gen_pc = "y71"
    /\ \E j \in 1..(gen_idx - 1) :
          /\ start_finish[j][1] < start_finish[j][2]
          /\ start_finish[j][2] = start_finish[gen_idx][1]

(***************************************************************************)
(* Properties of BuildTree                                                 *)
(***************************************************************************)
\* The record add runs on to its end: it has a start instant and all of its
\* annotations.
Usable(build) == HasStart(build) /\ build.kind = "ok"

UsableAt(i) == Usable(builds[i])

\* The base and the produced references of the i-th record, normalised.
BaseOf(i) == strip_registry_from_image(builds[i].base)
Produced(i) == {strip_registry_from_image(repo) : repo \in builds[i].primary}

\* R is in the derived set of base and of no other base.
AttributedTo(R, base) ==
    /\ R \in Get(deps, base)
    /\ \A b \in DOMAIN deps \ {base} : R \notin deps[b]

\* C1. Dedup invariant: after every add, and so after construction, no
\* reference is in the derived set of more than one base: the derived sets
\* of two distinct bases are disjoint.
C1_Dedup == Deduplicated(deps)

\* C1: a tree built from two usable records with different bases that list
\* the same reference.
C1_Witness ==
    /\ bt_pc = "built"
    /\ \E i, j \in 1..Len(builds) :
          /\ UsableAt(i) /\ UsableAt(j)
          /\ BaseOf(i) # BaseOf(j)
          /\ Produced(i) \cap Produced(j) # {}

\* C2, as claimed. Recency wins: if two usable records with different start
\* instants both list R, then after construction R is in the derived set of
\* the base of the one with the later start, and in no other derived set.
C2_RecencyClaimed ==
    bt_pc = "built" =>
        \A i, j \in 1..Len(builds) :
            (UsableAt(i) /\ UsableAt(j) /\ builds[i].start < builds[j].start)
            => \A R \in Produced(i) \cap Produced(j) :
                  AttributedTo(R, BaseOf(j))

\* The j-th record is the one that is attributed R: of the usable records
\* that list R none starts later, and none that starts at the same instant
\* stands before it in the list.
Wins(j, R) ==
    /\ UsableAt(j)
    /\ R \in Produced(j)
    /\ \A k \in 1..Len(builds) :
          (UsableAt(k) /\ R \in Produced(k) /\ k # j) =>
              \/ builds[k].start < builds[j].start
              \/ builds[k].start = builds[j].start /\ j < k

\* C2, amended. After construction R is in the derived set of the base of
\* the usable record listing R with the latest start instant of all (of the
\* first such record of the list, where several start at that instant) and
\* in no other derived set.
C2_Recency ==
    bt_pc = "built" =>
        \A j \in 1..Len(builds) : \A R \in Produced(j) :
            Wins(j, R) => AttributedTo(R, BaseOf(j))

\* C2: two usable records with different starts and different bases list R,
\* and the later one stands after the earlier one in the list.
C2_Witness ==
    /\ bt_pc = "built"
    /\ \E i, j \in 1..Len(builds) : \E R \in Produced(j) :
          /\ i < j
          /\ UsableAt(i) /\ R \in Produced(i)
          /\ builds[i].start < builds[j].start
          /\ BaseOf(i) # BaseOf(j)
          /\ Wins(j, R)

RECURSIVE AddAll(_, _)
\* The tree after add has run on every record of the list q, in order.
AddAll(tree, q) ==
    IF q = <<>> THEN tree ELSE AddAll(TreeAfterAdd(tree, Head(q)), Tail(q))

\* The tree BuildTree makes of the list without its unusable records.
TreeOfUsable ==
    AddAll([seen |-> {}, deps |-> [b \in {} |-> {}],
            when |-> [r \in {} |-> 0]],
           SortBuilds(SelectSeq(builds, Usable)))

\* C9. Tolerant input filtering: a record with no start instant, no
\* base-image annotation, no repositories annotation, or a repositories
\* annotation that is not parseable or lacks the primary list raises no
\* error; it is skipped, the other records are processed, and deps, seen and
\* when come out as they would without it.
C9_TolerantFiltering ==
    /\ bt_pc # "raised"
    /\ bt_pc = "built" => Tree = TreeOfUsable

\* C10. Latest is protected: trim_excess_tags never removes from a derived
\* set a reference whose tag is latest, leaf or not.
C10_LatestProtected ==
    bt_pc \in {"trimming", "trimmed"} =>
        \A b \in DOMAIN trim_input : \A layer \in trim_input[b] :
            IsLatest(layer) => layer \in Get(deps, b)

\* C10: trim_excess_tags has returned and has removed some reference, and a
\* leaf tagged latest is still in its derived set.
C10_Witness ==
    /\ bt_pc = "trimmed"
    /\ deps # trim_input
    /\ \E b \in DOMAIN deps : \E layer \in deps[b] :
          IsLatest(layer) /\ Get(deps, layer) = {}

(***************************************************************************)
(* Properties of trim_excess_tags                                          *)
(***************************************************************************)
\* layer is a leaf of the graph d: it has no entry in d, or an empty one.
Leaf(layer, d) == layer \notin DOMAIN d \/ d[layer] = {}

\* C11. Leaf tags are all removed: when trim_excess_tags returns, no derived
\* set holds a reference that is not tagged latest and whose own derived set
\* is absent or empty, leaves made by cascading removal included.
C11_LeavesRemoved ==
    bt_pc = "trimmed" =>
        \A b \in DOMAIN deps : \A layer \in deps[b] :
            IsLatest(layer) \/ ~Leaf(layer, deps)

\* C11: trim_excess_tags has returned after removing a reference that was no
\* leaf when it was called.
C11_Witness ==
    /\ bt_pc = "trimmed"
    /\ trim_calls = 1
    /\ \E b \in DOMAIN deps : \E layer \in trim_input[b] \ deps[b] :
          ~Leaf(layer, trim_input)

\* The graph of the cycle A:1 -> {B:1}, B:1 -> {A:1}.
CycleGraph == [b \in {A1, B1} |-> IF b = A1 THEN {B1} ELSE {A1}]

\* C12. Tags with dependents are kept: a reference is removed from a derived
\* set only at a moment when its own derived set is absent or empty,
\* whatever its tag; in the cycle A:1 -> {B:1}, B:1 -> {A:1} nothing is
\* removed.
C12_DependentsKept ==
    /\ [][\A b \in DOMAIN deps : \A layer \in deps[b] :
            (b \in DOMAIN deps' /\ layer \notin deps'[b]) => Leaf(layer, deps)
         ]_vars
    /\ []((bt_pc = "trimmed" /\ trim_input = CycleGraph) => deps = CycleGraph)

\* C12: trim_excess_tags has returned and has removed some reference, and a
\* reference not tagged latest that has dependents is still there.
C12_Witness ==
    /\ bt_pc = "trimmed"
    /\ trim_calls = 1
    /\ deps # trim_input
    /\ \E b \in DOMAIN deps : \E layer \in deps[b] :
          ~IsLatest(layer) /\ ~Leaf(layer, deps)

\* C13. Trim is idempotent: a second call of trim_excess_tags, on the tree
\* the first call has left, changes nothing.
C13_Idempotent == trim_calls >= 2 => deps = trim_input

\* C13: the second call has returned, on a tree with an emptied entry and
\* with references left.
C13_Witness ==
    /\ bt_pc = "trimmed"
    /\ trim_calls = 2
    /\ \E b \in DOMAIN deps : deps[b] = {}
    /\ \E b \in DOMAIN deps : deps[b] # {}

\* The number of edges of the graph d.
EdgeCount(d) ==
    Cardinality(UNION {{<<b, layer>> : layer \in d[b]} : b \in DOMAIN d})

\* C14. Trim terminates: on any finite graph, with cycles and self-loops or
\* without, trim_excess_tags returns; no step adds an edge, any_trimmed is
\* set by the steps that remove edges and by no other, and the loop exits at
\* the end of the first pass that has removed nothing.
C14_Terminates ==
    /\ (bt_pc = "trimming") ~> (bt_pc = "trimmed")
    /\ [][/\ EdgeCount(deps') <= EdgeCount(deps)
          /\ (any_trimmed' /\ ~any_trimmed)
                => EdgeCount(deps') < EdgeCount(deps)
          /\ EdgeCount(deps') < EdgeCount(deps) => any_trimmed'
          /\ (bt_pc = "trimming" /\ todo = {} /\ ~any_trimmed)
                => bt_pc' = "trimmed"
         ]_vars

\* C14: trim_excess_tags has returned, after a cascade, on a graph with a
\* self-loop.
C14_Witness ==
    /\ bt_pc = "trimmed"
    /\ trim_calls = 1
    /\ \E b \in DOMAIN deps : b \in deps[b]
    /\ \E b \in DOMAIN deps : \E layer \in trim_input[b] \ deps[b] :
          ~Leaf(layer, trim_input)

\* The graph d without the references that are removable in d: those not
\* tagged latest that are leaves of d.
WithoutRemovable(d) ==
    [b \in DOMAIN d |->
        {layer \in d[b] : Tail(layer) = <<"latest">> \/ ~Leaf(layer, d)}]

RECURSIVE TrimFix(_)
\* The graph that removing the removable references over and over ends in.
TrimFix(d) ==
    IF WithoutRemovable(d) = d THEN d ELSE TrimFix(WithoutRemovable(d))

\* C17. Trim result is order-independent: whatever order the bases are
\* visited in within each pass, trim_excess_tags ends in the same graph, the
\* one graph its input determines.
C17_OrderIndependent ==
    bt_pc = "trimmed" => deps = TrimFix(trim_input)

\* C17: trim_excess_tags has returned on a graph where the order of the
\* visits decides how many passes it takes: a chain of two references that
\* both go.
C17_Witness ==
    /\ bt_pc = "trimmed"
    /\ trim_calls = 1
    /\ \E b1, b2 \in DOMAIN trim_input :
          /\ b1 # b2
          /\ b2 \in trim_input[b1] \ deps[b1]
          /\ trim_input[b2] # {}
          /\ deps[b2] = {}

\* C18. Trim only shrinks edges: no step of trim_excess_tags adds or drops
\* a key of deps or adds an edge, none changes seen or when, and every
\* derived set is a subset of what it was when the call began; a base whose
\* tags are all removed keeps an empty entry.
C18_OnlyShrinks ==
    /\ [][/\ DOMAIN deps' = DOMAIN deps
          /\ \A b \in DOMAIN deps : deps'[b] \subseteq deps[b]
          /\ seen' = seen
          /\ when' = when
         ]_vars
    /\ [](bt_pc \in {"trimming", "trimmed"} =>
            /\ DOMAIN deps = DOMAIN trim_input
            /\ \A b \in DOMAIN deps : deps[b] \subseteq trim_input[b])

\* C18: trim_excess_tags has returned and a base has lost all its tags.
C18_Witness ==
    /\ bt_pc = "trimmed"
    /\ trim_calls = 1
    /\ \E b \in DOMAIN deps : deps[b] = {} /\ trim_input[b] # {}
    /\ seen # {}

(***************************************************************************)
(* Further properties of ConcurrentModel                                   *)
(***************************************************************************)
\* C15. Time-ordered output: for intervals with finish >= start appended in
\* start order, the instants of the pairs get_nbuilds yields never decrease.
C15_TimeOrdered ==
    FinishAfterStart =>
        \A i, j \in 1..Len(events) : i <= j => events[i][1] <= events[j][1]

\* C15: a finish event yielded between two start events.
C15_Witness ==
    /\ gen_run = 1
    /\ gen_pc = "y71"
    /\ Len(events) >= 3
    /\ Len(events) > gen_idx
    /\ events[Len(events) - 1][1] < Last(events)[1]

\* C16. Re-producing the series is repeatable: a second get_nbuilds(), run
\* to its end on the same intervals, yields the pairs the first one did.
C16_Repeatable ==
    (gen_run = 2 /\ gen_pc = "done") => events = first_events

(***************************************************************************)
(* Further properties of BuildTree                                         *)
(***************************************************************************)
\* C19. Seen-set invariant: across the add calls seen only grows, and it is
\* the union of the derived sets of deps.
C19_SeenSet ==
    /\ [][seen \subseteq seen']_vars
    /\ [](seen = UNION {deps[b] : b \in DOMAIN deps})

\* C19: a tree built with two add calls that both attributed references.
C19_Witness ==
    /\ bt_pc = "built"
    /\ Cardinality(seen) >= 2
    /\ Cardinality({b \in DOMAIN deps : deps[b] # {}}) >= 2

\* C20. Recorded timestamps: after construction the domain of when is seen,
\* and when[R] is the greatest start instant among the usable records that
\* list R.
C20_When ==
    bt_pc = "built" =>
        /\ DOMAIN when = seen
        /\ \A R \in seen :
              /\ \E j \in 1..Len(builds) :
                    UsableAt(j) /\ R \in Produced(j)
                    /\ builds[j].start = when[R]
              /\ \A k \in 1..Len(builds) :
                    (UsableAt(k) /\ R \in Produced(k))
                    => builds[k].start <= when[R]

\* C20: a tree built from usable records with different start instants that
\* list the same reference, the earlier one first in the list.
C20_Witness ==
    /\ bt_pc = "built"
    /\ \E i, j \in 1..Len(builds) : \E R \in seen :
          /\ i < j
          /\ UsableAt(i) /\ UsableAt(j)
          /\ R \in Produced(i) \cap Produced(j)
          /\ builds[i].start > builds[j].start

(***************************************************************************)
(* Specifications                                                          *)
(***************************************************************************)
InitGraph ==
    /\ window = TmWindow
    /\ TmFresh
    /\ CmInit
    /\ BtFresh

SpecGraph == InitGraph /\ [][NextGraph]_vars

InitTrim ==
    /\ window = TmWindow
    /\ TmFresh
    /\ CmInit
    /\ BtBuilt

SpecTrim == InitTrim /\ [][NextTrim]_vars

\* A call of trim_excess_tags runs on: no step of its loops waits on anything.
SpecTrimFair == SpecTrim /\ WF_vars(NextTrim)

InitThroughput ==
    /\ TmInit
    /\ CmInit
    /\ BtFresh

SpecThroughput == InitThroughput /\ [][NextThroughput]_vars

InitConcurrent ==
    /\ window = TmWindow
    /\ TmFresh
    /\ CmInit
    /\ BtFresh

SpecConcurrent == InitConcurrent /\ [][NextConcurrent]_vars

====
